---- MODULE Spec2Model ----
(***************************************************************************)
(* Model of src/server.js: the POST /generate-podcast handler, the helpers *)
(* it calls, and the files it creates and deletes.  One run of the handler *)
(* is modelled from the moment multer has stored the uploads until every   *)
(* deferred deletion has completed.                                        *)
(*                                                                         *)
(* Spec is that single run.  CleanupSpec calls cleanupFiles twice on any   *)
(* list of paths; RunsSpec interleaves the file-naming and cleanup steps   *)
(* of two requests over one disk.                                          *)
(*                                                                         *)
(* JavaScript strings are tuples of one-character strings so that          *)
(* toLowerCase() and includes() are computed rather than assumed.          *)
(***************************************************************************)
EXTENDS Integers, Sequences, FiniteSets, TLC

\* ---------------------------------------------------------------- bounds
\* the longest list cleanupFiles is called with (specification CleanupSpec)
MaxPaths == 3
\* the longest script of a request that runs beside another (RunsSpec)
MaxRunLines == 1
MaxScript == 2        \* longest script the generator returns in the model

\* ------------------------------------------------------ JavaScript values
Str(s) == [t |-> "str", s |-> s]
Num == [t |-> "num", s |-> <<>>]          \* a non-zero number
Undefined == [t |-> "undef", s |-> <<>>]

\* JavaScript truthiness of the values above
Truthy(v) == \/ v.t = "num"
             \/ v.t = "str" /\ Len(v.s) > 0

\* the lower-case form of a character, for the letters the inputs use
LowerChar(c) ==
  CASE c = "W" -> "w" [] c = "O" -> "o" [] c = "M" -> "m" [] c = "A" -> "a"
    [] c = "N" -> "n" [] c = "C" -> "c" [] OTHER -> c

\* String.prototype.toLowerCase
toLowerCase(s) == [i \in 1..Len(s) |-> LowerChar(s[i])]

\* String.prototype.includes
includes(s, sub) ==
  \E i \in 0..(Len(s) - Len(sub)) : SubSeq(s, i + 1, i + Len(sub)) = sub

RECURSIVE join(_, _)
\* Array.prototype.join
join(items, sep) ==
  IF Len(items) = 0 THEN <<>>
  ELSE IF Len(items) = 1 THEN items[1]
  ELSE items[1] \o sep \o join(Tail(items), sep)

\* ------------------------------------------------------------ the inputs
chirp == <<"c", "h", "i", "r", "p">>
woman == <<"w", "o", "m", "a", "n">>

ManVoices == { Str(<<"c", "h", "i", "r", "p", "-", "m">>),
               Str(<<"C", "h", "i", "r", "p", "-", "m">>),
               Undefined }
WomanVoices == { Str(<<"c", "h", "i", "r", "p", "-", "w">>),
                 Str(<<"p", "l", "a", "i", "n">>),
                 Num }

Man == Str(<<"M", "a", "n">>)
WOMAN2 == Str(<<"W", "O", "M", "A", "N", "2">>)
Hi == Str(<<"H", "i">>)

\* an element of the array parsed from the generator's text
Entry(isNull, speaker, line) == [isNull |-> isNull, speaker |-> speaker, line |-> line]
Entries == { Entry(TRUE, Undefined, Undefined),   \* null
             Entry(FALSE, Str(<<>>), Hi),         \* { speaker: "", line: "Hi" }
             Entry(FALSE, Man, Str(<<>>)),        \* { speaker: "Man", line: "" }
             Entry(FALSE, Man, Hi),
             Entry(FALSE, WOMAN2, Hi),
             Entry(FALSE, Num, Hi) }              \* { speaker: 7, line: "Hi" }

Scripts == UNION { [1..n -> Entries] : n \in 0..MaxScript }

\* --------------------------------------------------------------- the files
File(kind, n, id) == [kind |-> kind, n |-> n, id |-> id]
NoPath == File("undefined", 0, 0)

\* src/server.js:262-263: `${speaker}_${uuidv4()}.mp4` in the work directory;
\* n is 1 for the man, 2 for the woman
TargetPathOf(n, uuid) == File("source", n, uuid)

\* An audio name that leaves the uuid out: `line_${index + 1}.mp3`
AudioPathOf_NoUuid(i, uuid) == File("audio", i + 1, 0)

\* src/server.js:354-355: `${uuidv4()}_line_${index + 1}.mp3` in the work directory
AudioPathOf(i, uuid) == File("audio", i + 1, uuid)

\* src/server.js:356: `${uuidv4()}_clip_${index + 1}.mp4` in the work directory
ClipPathOf(i, uuid) == File("clip", i + 1, uuid)

\* src/server.js:236: `concat_${uuidv4()}.txt` in the work directory
ListFilePathOf(uuid) == File("manifest", 0, uuid)

\* src/server.js:379-380: `podcast_${uuidv4()}.mp4` in the output directory
FinalOutputPathOf(uuid) == File("final", 0, uuid)

\* what multer stored for the request's three file fields (src/server.js:281-285)
UploadPath(field) ==
  CASE field = "topicFile" -> File("upload", 1, 0)
    [] field = "manVideoFile" -> File("upload", 2, 0)
    [] field = "womanVideoFile" -> File("upload", 3, 0)

Fields == {"topicFile", "manVideoFile", "womanVideoFile"}

\* req.files?.<field>?.[0]?.path
FilePathOf(files, field) == IF field \in files THEN UploadPath(field) ELSE NoPath

VARIABLES
  pc,            \* position of the handler
  apiKey,        \* req.body.apiKey
  manVoice,      \* req.body.manVoice
  womanVoice,    \* req.body.womanVoice
  reqFiles,      \* the file fields the request carries
  disk,          \* the files that exist
  cleanupPaths,  \* the handler's cleanupPaths array
  topicParts,    \* what prepareTopicParts returned
  script,        \* what callGemini returned (kept after the run, for the properties)
  manVideoPath, womanVideoPath,
  index,         \* loop variable of the rendering loop
  audioPath, clipPath, voice, baseVideoPath, duration,
  clipPaths,
  finalOutputPath,
  responses,     \* the HTTP responses sent, in order
  timer,         \* the setTimeout of the success path
  cleanupPos,    \* next entry of cleanupPaths a running cleanupFiles unlinks; 0: not running
  nextUuid,      \* uuidv4() draws
  error,         \* the error the catch block received
  \* ---- history, read only by the properties
  calls,         \* external collaborators and media-engine functions invoked so far
  created,       \* every file the pipeline created
  unlinked,      \* every file an unlink removed
  transcript,    \* how the transcript extraction ended: none, failed, fetched
  dlFault,       \* a fault that hit a background-video download
  concatArg,     \* the clip list concatenateClips was invoked with
  rendered,      \* <<script index, step>> of every rendering step that completed,
                 \* and <<0, "concat">> once the concatenation has succeeded
  synthLog,      \* the script positions synthesizeSpeech was called for, in call order
  cleanupRuns,   \* how many times cleanupFiles was invoked
  \* ---- the environment, and the other requests
  unlinkFaults,  \* the paths whose unlink fails with an error other than ENOENT
  cleanupRejected, \* a promise returned by cleanupFiles has rejected
  runs           \* the requests in flight side by side (specification RunsSpec)

vars == << pc, apiKey, manVoice, womanVoice, reqFiles, disk, cleanupPaths,
           topicParts, script, manVideoPath, womanVideoPath, index, audioPath,
           clipPath, voice, baseVideoPath, duration, clipPaths, finalOutputPath,
           responses, timer, cleanupPos, nextUuid, error, calls, created,
           unlinked, transcript, dlFault, concatArg, rendered, synthLog,
           cleanupRuns, unlinkFaults, cleanupRejected, runs >>

reqVars == << apiKey, manVoice, womanVoice, reqFiles >>
loopVars == << index, audioPath, clipPath, voice, baseVideoPath, duration, clipPaths >>
srcVars == << manVideoPath, womanVideoPath >>
histVars == << calls, created, unlinked, transcript, dlFault, concatArg, rendered >>
logVars == << synthLog, cleanupRuns >>
envVars == << unlinkFaults, cleanupRejected, runs >>

Init ==
  /\ pc = "validate"
  /\ apiKey \in BOOLEAN
  /\ manVoice \in ManVoices
  /\ womanVoice \in WomanVoices
  /\ reqFiles \in SUBSET Fields
  /\ disk = { UploadPath(f) : f \in reqFiles }
  /\ cleanupPaths = <<>>
  /\ topicParts = <<>>
  /\ script = <<>>
  /\ manVideoPath = NoPath
  /\ womanVideoPath = NoPath
  /\ index = 0
  /\ audioPath = NoPath
  /\ clipPath = NoPath
  /\ voice = Undefined
  /\ baseVideoPath = NoPath
  /\ duration = "none"
  /\ clipPaths = <<>>
  /\ finalOutputPath = NoPath
  /\ responses = <<>>
  /\ timer = "unset"
  /\ cleanupPos = 0
  /\ nextUuid = 1
  /\ error = "none"
  /\ calls = {}
  /\ created = {}
  /\ unlinked = {}
  /\ transcript = "none"
  /\ dlFault = "none"
  /\ concatArg = <<>>
  /\ rendered = {}
  /\ synthLog = <<>>
  /\ cleanupRuns = 0
  /\ unlinkFaults = {}
  /\ cleanupRejected = FALSE
  /\ runs = <<>>

\* src/server.js:289-392: the constants declared in the try block go out of
\* scope when the block is left; cleanupPaths (line 288) does not.  The script
\* is kept: the properties compare the run's result with it.
TryScopeLeft ==
  /\ topicParts' = <<>>
  /\ manVideoPath' = NoPath
  /\ womanVideoPath' = NoPath
  /\ index' = 0
  /\ audioPath' = NoPath
  /\ clipPath' = NoPath
  /\ voice' = Undefined
  /\ baseVideoPath' = NoPath
  /\ duration' = "none"
  /\ clipPaths' = <<>>
  /\ finalOutputPath' = NoPath

\* the catch block is entered with the given error (src/server.js:392)
Throw(e) == /\ error' = e
            /\ pc' = "catch"

\* ------------------------------------------------------------ validation
\* mutant: the family name is matched without regard to case
validateChirpVoice_AnyCase(voiceName) ==
  voiceName.t = "str" /\ includes(toLowerCase(voiceName.s), chirp)

\* src/server.js:277-279
validateChirpVoice(voiceName) == voiceName.t = "str" /\ includes(voiceName.s, chirp)

\* mutant: the 400 is sent without `return`, and the handler goes on
Validate_NoReturn ==
  /\ pc = "validate"
  /\ IF ~apiKey \/ ~validateChirpVoice(manVoice) \/ ~validateChirpVoice(womanVoice)
       THEN responses' = Append(responses, 400)
       ELSE UNCHANGED responses
  /\ pc' = "compose"
  /\ UNCHANGED << reqVars, disk, cleanupPaths, topicParts, script, srcVars, loopVars,
                  finalOutputPath, timer, cleanupPos, nextUuid, error, histVars >>
  /\ UNCHANGED << logVars, envVars >>

\* src/server.js:304-310
Validate ==
  /\ pc = "validate"
  /\ IF ~apiKey \/ ~validateChirpVoice(manVoice) \/ ~validateChirpVoice(womanVoice)
       THEN /\ responses' = Append(responses, 400)
            /\ pc' = "done"
       ELSE /\ pc' = "compose"
            /\ UNCHANGED responses
  /\ UNCHANGED << reqVars, disk, cleanupPaths, topicParts, script, srcVars, loopVars,
                  finalOutputPath, timer, cleanupPos, nextUuid, error, histVars >>
  /\ UNCHANGED << logVars, envVars >>

\* ------------------------------------------------------- topic composer
Null == [t |-> "null", s |-> <<>>]
TopicTexts == { Undefined, Str(<<>>), Str(<<"t">>) }
YoutubeUrls == { Undefined, Str(<<"u">>) }

\* what YoutubeTranscript.fetchTranscript can do: throw, resolve to nothing,
\* or resolve to a list of items (given by their texts)
FetchResults ==
  { [kind |-> "throws", items |-> <<>>], [kind |-> "null", items |-> <<>>] }
  \cup { [kind |-> "items", items |-> its] :
           its \in { <<>>, << <<>> >>, << <<"t">> >>, << <<>>, <<>> >>, << <<"t">>, <<"t">> >> } }

\* src/server.js:95-106
extractYouTubeTranscript(fetch) ==
  IF fetch.kind = "throws" THEN Null
  ELSE IF fetch.kind = "null" \/ Len(fetch.items) = 0 THEN Null
  ELSE Str(join(fetch.items, <<" ">>))

\* mutant: only an undefined transcript counts as missing
TranscriptSegment_NullAccepted(transcriptText) ==
  IF transcriptText.t # "undef" THEN "transcript" ELSE "noTranscript"

\* src/server.js:119-123: the segment pushed for a supplied video link
TranscriptSegment(transcriptText) ==
  IF Truthy(transcriptText) THEN "transcript" ELSE "noTranscript"

\* src/server.js:137: nothing but the instruction segment was collected
OnlyIntro(parts) == Len(parts) = 1

\* src/server.js:108-142, without the read of the topic file
PartsBeforeFile(topicText, youtubeUrl, transcriptText) ==
  << "intro" >>
  \o (IF Truthy(topicText) THEN << "topicText" >> ELSE <<>>)
  \o (IF Truthy(youtubeUrl) THEN << TranscriptSegment(transcriptText) >> ELSE <<>>)

\* src/server.js:126-141
PartsAfterFile(parts, topicFilePath) ==
  LET withFile == IF topicFilePath # NoPath THEN Append(parts, "inlineData") ELSE parts
  IN IF OnlyIntro(withFile) THEN Append(withFile, "noContext") ELSE withFile

\* how the extraction ended, for the properties
TranscriptOutcome(youtubeUrl, fetch) ==
  IF ~Truthy(youtubeUrl) THEN "none"
  ELSE IF fetch.kind = "throws" \/ fetch.kind = "null" \/ Len(fetch.items) = 0
    THEN "failed"
  ELSE "fetched"

\* src/server.js:319-324 with 108-142
PrepareTopicParts ==
  /\ pc = "compose"
  /\ \E topicText \in TopicTexts, youtubeUrl \in YoutubeUrls, fetch \in FetchResults,
        readOk \in BOOLEAN :
       LET topicFilePath == FilePathOf(reqFiles, "topicFile")
           parts == PartsBeforeFile(topicText, youtubeUrl, extractYouTubeTranscript(fetch))
       IN \* without a link nothing is fetched, without a file nothing is read
          /\ Truthy(youtubeUrl) \/ fetch.kind = "null"
          /\ topicFilePath # NoPath \/ readOk
          /\ transcript' = TranscriptOutcome(youtubeUrl, fetch)
          /\ calls' = IF Truthy(youtubeUrl) THEN calls \cup {"transcript"} ELSE calls
          /\ IF topicFilePath # NoPath /\ ~readOk
               THEN /\ Throw("readFile")
                    /\ topicParts' = parts
               ELSE /\ topicParts' = PartsAfterFile(parts, topicFilePath)
                    /\ pc' = "gemini"
                    /\ UNCHANGED error
  /\ UNCHANGED << reqVars, disk, cleanupPaths, script, srcVars, loopVars,
                  finalOutputPath, responses, timer, cleanupPos, nextUuid,
                  created, unlinked, dlFault, concatArg, rendered >>
  /\ UNCHANGED << logVars, envVars >>

\* -------------------------------------------------------- script generator
\* src/server.js:146-174: every way callGemini throws
GeminiFailures == { "httpError", "noCandidates", "noText", "badJson", "notArray" }

\* mutant: the lines are rendered as soon as the script is there; the
\* background videos are not resolved
CallGemini_ThenRender ==
  /\ pc = "gemini"
  /\ calls' = calls \cup {"gemini"}
  /\ \/ \E e \in GeminiFailures :
          /\ Throw(e)
          /\ UNCHANGED script
     \/ \E sc \in Scripts :
          /\ script' = sc
          /\ pc' = "loop"
          /\ UNCHANGED error
  /\ UNCHANGED << reqVars, disk, cleanupPaths, topicParts, srcVars, loopVars,
                  finalOutputPath, responses, timer, cleanupPos, nextUuid,
                  created, unlinked, transcript, dlFault, concatArg, rendered >>
  /\ UNCHANGED << logVars, envVars >>

\* src/server.js:326 with 144-177
CallGemini ==
  /\ pc = "gemini"
  /\ calls' = calls \cup {"gemini"}
  /\ \/ \E e \in GeminiFailures :
          /\ Throw(e)
          /\ UNCHANGED script
     \/ \E sc \in Scripts :
          /\ script' = sc
          /\ pc' = "resolveMan"
          /\ UNCHANGED error
  /\ UNCHANGED << reqVars, disk, cleanupPaths, topicParts, srcVars, loopVars,
                  finalOutputPath, responses, timer, cleanupPos, nextUuid,
                  created, unlinked, transcript, dlFault, concatArg, rendered >>
  /\ UNCHANGED << logVars, envVars >>

\* ---------------------------------------------------------- source resolver
VideoOptions == { "default", "library", "custom" }

\* how downloadFile (src/server.js:75-93) can end:
\*   ok              the body was written and the writer closed
\*   requestRejected axios.get rejects (the write stream has created the file)
\*   writeError      the writer emits 'error' after the listener of line 81 is attached
\*   streamError     the response stream fails while piping: pipe() neither closes
\*                   the writer nor forwards the error, so neither listener runs
\*   openError       the writer emits 'error' while axios.get is still pending, when
\*                   no 'error' listener is attached yet
DownloadOutcomes == { "ok", "requestRejected", "writeError", "streamError", "openError" }

\* mutant: the promise of downloadFile resolves on 'close' whatever the writer
\* has reported
AfterDownload_ResolvesOnClose(o, next) ==
  CASE o \in { "ok", "writeError" } -> next
    [] o = "requestRejected" -> "catch"
    [] o = "streamError" -> "hung"
    [] o = "openError" -> "crashed"

\* src/server.js:75-93: where the handler stands when downloadFile ended with outcome o
\* and the handler would go on at `next`
AfterDownload(o, next) ==
  CASE o = "ok" -> next
    [] o = "requestRejected" -> "catch"
    [] o = "writeError" -> "catch"
    [] o = "streamError" -> "hung"
    [] o = "openError" -> "crashed"

\* src/server.js:76: createWriteStream has created the target unless the open failed
DownloadLeavesFile(o) == o # "openError"

\* src/server.js:254-275 for one speaker; n numbers the speaker (1 man, 2 woman)
ResolveVideoSource(field, n, next) ==
  \E option \in VideoOptions :
    LET uploadPath == FilePathOf(reqFiles, field)
        targetPath == TargetPathOf(n, nextUuid)
    IN IF option = "custom"
         THEN /\ IF uploadPath = NoPath
                   THEN /\ Throw("missingUpload")
                        /\ UNCHANGED srcVars
                   ELSE /\ pc' = next
                        /\ UNCHANGED error
                        /\ IF n = 1
                             THEN manVideoPath' = uploadPath /\ UNCHANGED womanVideoPath
                             ELSE womanVideoPath' = uploadPath /\ UNCHANGED manVideoPath
              /\ UNCHANGED << disk, nextUuid, calls, created, dlFault >>
         ELSE \E o \in DownloadOutcomes :
                /\ nextUuid' = nextUuid + 1
                /\ calls' = calls \cup {"download"}
                /\ disk' = IF DownloadLeavesFile(o) THEN disk \cup {targetPath} ELSE disk
                /\ created' = IF DownloadLeavesFile(o) THEN created \cup {targetPath} ELSE created
                /\ dlFault' = IF o = "ok" THEN dlFault ELSE o
                /\ pc' = AfterDownload(o, next)
                /\ error' = IF AfterDownload(o, next) = "catch" THEN "sourceFetch" ELSE error
                /\ IF o # "ok" THEN UNCHANGED srcVars
                   ELSE IF n = 1
                     THEN manVideoPath' = targetPath /\ UNCHANGED womanVideoPath
                     ELSE womanVideoPath' = targetPath /\ UNCHANGED manVideoPath

\* src/server.js:330-334
ResolveMan ==
  /\ pc = "resolveMan"
  /\ ResolveVideoSource("manVideoFile", 1, "resolveWoman")
  /\ UNCHANGED << reqVars, cleanupPaths, topicParts, script, loopVars, finalOutputPath,
                  responses, timer, cleanupPos, unlinked, transcript, concatArg, rendered >>
  /\ UNCHANGED << logVars, envVars >>

\* src/server.js:335-339
ResolveWoman ==
  /\ pc = "resolveWoman"
  /\ ResolveVideoSource("womanVideoFile", 2, "register")
  /\ UNCHANGED << reqVars, cleanupPaths, topicParts, script, loopVars, finalOutputPath,
                  responses, timer, cleanupPos, unlinked, transcript, concatArg, rendered >>
  /\ UNCHANGED << logVars, envVars >>

\* mutant: both resolved paths are registered, uploads included
SourcesToRegister_Unconditional(files, manPath, womanPath) == << manPath, womanPath >>

\* src/server.js:341-346: the resolved paths that are not the uploads
SourcesToRegister(files, manPath, womanPath) ==
  (IF manPath # FilePathOf(files, "manVideoFile") THEN << manPath >> ELSE <<>>)
  \o (IF womanPath # FilePathOf(files, "womanVideoFile") THEN << womanPath >> ELSE <<>>)

\* src/server.js:341-346
RegisterSources ==
  /\ pc = "register"
  /\ cleanupPaths' = cleanupPaths \o SourcesToRegister(reqFiles, manVideoPath, womanVideoPath)
  /\ pc' = "loop"
  /\ UNCHANGED << reqVars, disk, topicParts, script, srcVars, loopVars, finalOutputPath,
                  responses, timer, cleanupPos, nextUuid, error, histVars >>
  /\ UNCHANGED << logVars, envVars >>

\* ------------------------------------------------------------ line renderer
\* mutant: the text of the line is not looked at
IsMalformed_SpeakerOnly(line) == line.isNull \/ ~Truthy(line.speaker)

\* src/server.js:350
IsMalformed(line) == line.isNull \/ ~Truthy(line.speaker) \/ ~Truthy(line.line)

\* src/server.js:359-360: line.speaker.toLowerCase().includes('woman')
SpeakerIsWoman(speaker) == includes(toLowerCase(speaker.s), woman)

\* src/server.js:359
VoiceFor(speaker, manV, womanV) == IF SpeakerIsWoman(speaker) THEN womanV ELSE manV

\* src/server.js:360
VideoFor(speaker, manPath, womanPath) == IF SpeakerIsWoman(speaker) THEN womanPath ELSE manPath

\* src/server.js:348-360: the loop head up to the first await of an iteration
LoopHead ==
  /\ pc = "loop"
  /\ IF index >= Len(script)
       THEN /\ pc' = "checkClips"
            /\ UNCHANGED << cleanupPaths, loopVars, nextUuid, error >>
       ELSE LET line == script[index + 1]
                audio == AudioPathOf(index, nextUuid)
                clip == ClipPathOf(index, nextUuid + 1)
            IN IF IsMalformed(line)
                 THEN /\ index' = index + 1
                      /\ UNCHANGED << pc, cleanupPaths, audioPath, clipPath, voice,
                                      baseVideoPath, duration, clipPaths, nextUuid, error >>
                 ELSE /\ nextUuid' = nextUuid + 2
                      /\ cleanupPaths' = cleanupPaths \o << audio, clip >>
                      /\ audioPath' = audio
                      /\ clipPath' = clip
                      /\ UNCHANGED << index, duration, clipPaths >>
                      /\ IF line.speaker.t # "str"
                           THEN \* toLowerCase is not a function of a non-string
                                /\ Throw("speakerTypeError")
                                /\ UNCHANGED << voice, baseVideoPath >>
                           ELSE /\ voice' = VoiceFor(line.speaker, manVoice, womanVoice)
                                /\ baseVideoPath' =
                                     VideoFor(line.speaker, manVideoPath, womanVideoPath)
                                /\ pc' = "synth"
                                /\ UNCHANGED error
  /\ UNCHANGED << reqVars, disk, topicParts, script, srcVars, finalOutputPath,
                  responses, timer, cleanupPos, histVars >>
  /\ UNCHANGED << logVars, envVars >>

\* src/server.js:179-202: how synthesizeSpeech can end
SynthOutcomes == { "ok", "httpError", "noAudio", "writeError" }

\* mutant: a response without audioContent is not an error
SynthThrows_AudioNotChecked(o) == o \in { "httpError", "writeError" }

\* mutant: a failed write of the audio file is not an error
SynthThrows_WriteNotAwaited(o) == o \in { "httpError", "noAudio" }

\* src/server.js:193-200: axios.post rejects, audioContent is missing, or
\* writeFile rejects
SynthThrows(o) == o \in { "httpError", "noAudio", "writeError" }

\* src/server.js:364
SynthesizeSpeech ==
  /\ pc = "synth"
  /\ calls' = calls \cup {"tts"}
  /\ \E o \in SynthOutcomes :
       /\ IF o \in {"ok", "writeError"}
            THEN disk' = disk \cup {audioPath} /\ created' = created \cup {audioPath}
            ELSE UNCHANGED << disk, created >>
       /\ rendered' = IF o = "ok" THEN rendered \cup { << index + 1, "synth" >> }
                                  ELSE rendered
       /\ IF SynthThrows(o)
            THEN Throw("synthesis")
            ELSE /\ pc' = "probe"
                 /\ UNCHANGED error
  /\ UNCHANGED << reqVars, cleanupPaths, topicParts, script, srcVars, loopVars,
                  finalOutputPath, responses, timer, cleanupPos, nextUuid,
                  unlinked, transcript, dlFault, concatArg >>
  /\ synthLog' = Append(synthLog, index + 1)
  /\ UNCHANGED << cleanupRuns, envVars >>

\* what ffprobe can report as metadata.format.duration
Durations == { "undefined", "zero", "nan", "positive", "negative", "infinity", "string" }

\* src/server.js:366: !duration || Number.isNaN(duration)
DurationRejected(d) == d \in { "undefined", "zero", "nan" }

\* src/server.js:365-368 with 204-214
GetMediaDuration ==
  /\ pc = "probe"
  /\ calls' = calls \cup {"ffprobe"}
  /\ \/ /\ Throw("probe")
        /\ UNCHANGED << duration, rendered >>
     \/ \E d \in Durations :
          IF DurationRejected(d)
            THEN /\ Throw("duration")
                 /\ UNCHANGED << duration, rendered >>
            ELSE /\ duration' = d
                 /\ rendered' = rendered \cup { << index + 1, "probe" >> }
                 /\ pc' = "assemble"
                 /\ UNCHANGED error
  /\ UNCHANGED << reqVars, disk, cleanupPaths, topicParts, script, srcVars, index,
                  audioPath, clipPath, voice, baseVideoPath, clipPaths, finalOutputPath,
                  responses, timer, cleanupPos, nextUuid, created, unlinked,
                  transcript, dlFault, concatArg >>
  /\ UNCHANGED << logVars, envVars >>

\* src/server.js:371-373 with 216-233; the iteration's constants go out of scope
LoopVideoWithAudio ==
  /\ pc = "assemble"
  /\ IF duration = "string"
       THEN \* durationSeconds.toFixed is not a function: the executor throws
            /\ Throw("durationTypeError")
            /\ UNCHANGED << disk, loopVars, calls, created, rendered >>
       ELSE /\ calls' = calls \cup {"ffmpeg"}
            /\ \/ /\ disk' = disk \cup {clipPath}
                  /\ created' = created \cup {clipPath}
                  /\ rendered' = rendered \cup { << index + 1, "clip" >> }
                  /\ clipPaths' = Append(clipPaths, clipPath)
                  /\ index' = index + 1
                  /\ audioPath' = NoPath
                  /\ clipPath' = NoPath
                  /\ voice' = Undefined
                  /\ baseVideoPath' = NoPath
                  /\ duration' = "none"
                  /\ pc' = "loop"
                  /\ UNCHANGED error
               \/ \E partial \in BOOLEAN :
                    /\ disk' = IF partial THEN disk \cup {clipPath} ELSE disk
                    /\ created' = IF partial THEN created \cup {clipPath} ELSE created
                    /\ Throw("clipAssembly")
                    /\ UNCHANGED << loopVars, rendered >>
  /\ UNCHANGED << reqVars, cleanupPaths, topicParts, script, srcVars, finalOutputPath,
                  responses, timer, cleanupPos, nextUuid, unlinked, transcript,
                  dlFault, concatArg >>
  /\ UNCHANGED << logVars, envVars >>

\* ------------------------------------------------------------ concatenation
\* mutant: the guard against an empty clip list is gone
NoClips_Unchecked(clips) == FALSE

\* src/server.js:375
NoClips(clips) == Len(clips) = 0

\* src/server.js:375-381
CheckClips ==
  /\ pc = "checkClips"
  /\ IF NoClips(clipPaths)
       THEN /\ Throw("noClips")
            /\ UNCHANGED << finalOutputPath, nextUuid >>
       ELSE /\ finalOutputPath' = FinalOutputPathOf(nextUuid)
            /\ nextUuid' = nextUuid + 1
            /\ pc' = "concat"
            /\ UNCHANGED error
  /\ UNCHANGED << reqVars, disk, cleanupPaths, topicParts, script, srcVars, loopVars,
                  responses, timer, cleanupPos, histVars >>
  /\ UNCHANGED << logVars, envVars >>

\* src/server.js:382 with 235-252:
\*   writeError  the manifest cannot be written
\*   ffmpegError the media engine fails; line 250 is not reached
\*   ok          the output is written and the manifest unlinked
ConcatOutcomes == { "ok", "writeError", "ffmpegError" }

ConcatenateClips ==
  /\ pc = "concat"
  /\ concatArg' = clipPaths
  /\ nextUuid' = nextUuid + 1
  /\ calls' = calls \cup {"concat"}
  /\ \E o \in ConcatOutcomes, partial \in BOOLEAN :
       LET listFilePath == ListFilePathOf(nextUuid)
       IN /\ o = "ok" => partial
          /\ o = "writeError" => ~partial
          /\ disk' = CASE o = "ok" -> disk \cup {finalOutputPath}
                       [] o = "writeError" -> disk
                       [] o = "ffmpegError" ->
                            disk \cup {listFilePath}
                                 \cup (IF partial THEN {finalOutputPath} ELSE {})
          /\ created' = CASE o = "ok" -> created \cup {listFilePath, finalOutputPath}
                          [] o = "writeError" -> created
                          [] o = "ffmpegError" ->
                               created \cup {listFilePath}
                                       \cup (IF partial THEN {finalOutputPath} ELSE {})
          /\ unlinked' = IF o = "ok" THEN unlinked \cup {listFilePath} ELSE unlinked
          /\ rendered' = IF o = "ok" THEN rendered \cup { << 0, "concat" >> } ELSE rendered
          /\ IF o = "ok"
               THEN pc' = "respond" /\ UNCHANGED error
               ELSE Throw("concat")
  /\ UNCHANGED << reqVars, cleanupPaths, topicParts, script, srcVars, loopVars,
                  finalOutputPath, responses, timer, cleanupPos, transcript, dlFault >>
  /\ UNCHANGED << logVars, envVars >>

\* --------------------------------------------------------- result and cleanup
\* src/server.js:387: the upload paths that are set
TempUploads(files) ==
  SelectSeq(<< FilePathOf(files, "topicFile"), FilePathOf(files, "manVideoFile"),
               FilePathOf(files, "womanVideoFile") >>,
            LAMBDA path : path # NoPath)

\* src/server.js:384-391
Respond200 ==
  /\ pc = "respond"
  /\ responses' = Append(responses, 200)
  /\ cleanupPaths' = cleanupPaths \o TempUploads(reqFiles)
  /\ timer' = "armed"
  /\ pc' = "done"
  /\ TryScopeLeft
  /\ UNCHANGED << reqVars, disk, script, cleanupPos, nextUuid, error, histVars >>
  /\ UNCHANGED << logVars, envVars >>

\* src/server.js:389-391: the timeout fires and calls cleanupFiles
TimerFires ==
  /\ timer = "armed"
  /\ timer' = "fired"
  /\ cleanupPos' = 1
  /\ UNCHANGED << pc, reqVars, disk, cleanupPaths, topicParts, script, srcVars, loopVars,
                  finalOutputPath, responses, nextUuid, error, histVars >>
  /\ cleanupRuns' = cleanupRuns + 1
  /\ UNCHANGED << synthLog, envVars >>

\* src/server.js:392-396: cleanupFiles is called and not awaited; the response follows
Catch ==
  /\ pc = "catch"
  /\ cleanupPos' = 1
  /\ responses' = Append(responses, 500)
  /\ pc' = "done"
  /\ error' = "none"
  /\ TryScopeLeft
  /\ UNCHANGED << reqVars, disk, cleanupPaths, script, timer, nextUuid, histVars >>
  /\ cleanupRuns' = cleanupRuns + 1
  /\ UNCHANGED << synthLog, envVars >>

\* src/server.js:58-60: what the unlink of one entry of the list does
UnlinkResult(filePath, files, faults) ==
  IF filePath = NoPath THEN "skipped"
  ELSE IF filePath \notin files THEN "ENOENT"
  ELSE IF filePath \in faults THEN "EPERM"
  ELSE "ok"

\* mutant: an error other than ENOENT is thrown on after it is logged
Rethrows_Unexpected(code) == code # "ENOENT"

\* src/server.js:61-65: the catch block logs an error other than ENOENT and
\* rethrows none
Rethrows(code) == FALSE

\* src/server.js:57-66: one unlink of a running cleanupFiles completes.  The
\* unlinks of one call run concurrently on distinct entries; they commute, so
\* they are completed here in the order of the list.
CleanupFilesStep ==
  /\ cleanupPos >= 1
  /\ cleanupPos <= Len(cleanupPaths)
  /\ LET filePath == cleanupPaths[cleanupPos]
         result == UnlinkResult(filePath, disk, unlinkFaults)
     IN /\ IF result = "ok"
             THEN /\ disk' = disk \ {filePath}
                  /\ unlinked' = unlinked \cup {filePath}
             ELSE UNCHANGED << disk, unlinked >>
        /\ cleanupRejected' =
             (cleanupRejected \/ (result \in {"ENOENT", "EPERM"} /\ Rethrows(result)))
  /\ cleanupPos' = cleanupPos + 1
  /\ UNCHANGED << pc, reqVars, cleanupPaths, topicParts, script, srcVars, loopVars,
                  finalOutputPath, responses, timer, nextUuid, error, calls, created,
                  transcript, dlFault, concatArg, rendered, logVars, unlinkFaults, runs >>

Next == \/ Validate
        \/ PrepareTopicParts
        \/ CallGemini
        \/ ResolveMan
        \/ ResolveWoman
        \/ RegisterSources
        \/ LoopHead
        \/ SynthesizeSpeech
        \/ GetMediaDuration
        \/ LoopVideoWithAudio
        \/ CheckClips
        \/ ConcatenateClips
        \/ Respond200
        \/ TimerFires
        \/ Catch
        \/ CleanupFilesStep

Spec == Init /\ [][Next]_vars

\* ------------------------------------------- cleanupFiles, called on any list
\* the handler's variables that cleanupFiles neither reads nor writes
cleanupFrame == << pc, reqVars, topicParts, script, srcVars, loopVars, finalOutputPath,
                   responses, timer, nextUuid, error, calls, created, transcript,
                   dlFault, concatArg, rendered, synthLog, runs >>

\* the entries a list handed to cleanupFiles can hold: undefined and paths in
\* the work directory
PathPool == { NoPath, TargetPathOf(1, 1), AudioPathOf(0, 2), ClipPathOf(0, 3) }

\* the lists of at most n entries
ListsUpTo(n) == UNION { [1..k -> PathPool] : k \in 0..n }

\* src/server.js:55-56: cleanupFiles is called with some list, with any of the
\* paths on disk and any of them failing to unlink; no request is running
CleanupInit ==
  /\ cleanupPaths \in ListsUpTo(MaxPaths)
  /\ disk \in SUBSET (PathPool \ {NoPath})
  /\ unlinkFaults \in SUBSET (PathPool \ {NoPath})
  /\ cleanupPos = 1
  /\ cleanupRuns = 1
  /\ cleanupRejected = FALSE
  /\ unlinked = {}
  /\ pc = "done"
  /\ apiKey = TRUE
  /\ manVoice = Undefined
  /\ womanVoice = Undefined
  /\ reqFiles = {}
  /\ topicParts = <<>>
  /\ script = <<>>
  /\ manVideoPath = NoPath
  /\ womanVideoPath = NoPath
  /\ index = 0
  /\ audioPath = NoPath
  /\ clipPath = NoPath
  /\ voice = Undefined
  /\ baseVideoPath = NoPath
  /\ duration = "none"
  /\ clipPaths = <<>>
  /\ finalOutputPath = NoPath
  /\ responses = <<>>
  /\ timer = "unset"
  /\ nextUuid = 1
  /\ error = "none"
  /\ calls = {}
  /\ created = {}
  /\ transcript = "none"
  /\ dlFault = "none"
  /\ concatArg = <<>>
  /\ rendered = {}
  /\ synthLog = <<>>
  /\ runs = <<>>

\* src/server.js:55-68: cleanupFiles is called again with the same list once
\* the first call has settled
CleanupFilesAgain ==
  /\ cleanupRuns = 1
  /\ cleanupPos > Len(cleanupPaths)
  /\ cleanupPos' = 1
  /\ cleanupRuns' = 2
  /\ UNCHANGED << cleanupFrame, cleanupPaths, disk, unlinked, unlinkFaults,
                  cleanupRejected >>

CleanupNext == \/ CleanupFilesStep
               \/ CleanupFilesAgain

CleanupSpec == CleanupInit /\ [][CleanupNext]_vars

\* ------------------------------------------------ requests running side by side
\* the requests in flight
Runs == { 1, 2 }

\* the handler's variables of the single-request model, unused here
runsFrame == << pc, reqVars, cleanupPaths, topicParts, script, srcVars, loopVars,
                finalOutputPath, responses, timer, cleanupPos, error, histVars,
                logVars, unlinkFaults, cleanupRejected >>

\* src/server.js:287-346: the locals of one invocation of the handler that
\* hold or list file names, for a script of n well-formed lines
RunAt(position, n) ==
  [ pc |-> position, n |-> n, index |-> 0, manVideoPath |-> NoPath,
    womanVideoPath |-> NoPath, cleanupPaths |-> <<>>, audioPath |-> NoPath,
    clipPath |-> NoPath, clipPaths |-> <<>>, finalOutputPath |-> NoPath,
    cleanupPos |-> 0, timer |-> "unset", names |-> {}, deleted |-> {} ]

\* every request has its script and is about to resolve its background
\* videos; the work and output directories are empty
RunsInit ==
  /\ runs \in [Runs -> { RunAt("resolveMan", n) : n \in 1..MaxRunLines }]
  /\ disk = {}
  /\ nextUuid = 1
  /\ pc = "done"
  /\ apiKey = TRUE
  /\ manVoice = Undefined
  /\ womanVoice = Undefined
  /\ reqFiles = {}
  /\ cleanupPaths = <<>>
  /\ topicParts = <<>>
  /\ script = <<>>
  /\ manVideoPath = NoPath
  /\ womanVideoPath = NoPath
  /\ index = 0
  /\ audioPath = NoPath
  /\ clipPath = NoPath
  /\ voice = Undefined
  /\ baseVideoPath = NoPath
  /\ duration = "none"
  /\ clipPaths = <<>>
  /\ finalOutputPath = NoPath
  /\ responses = <<>>
  /\ timer = "unset"
  /\ cleanupPos = 0
  /\ error = "none"
  /\ calls = {}
  /\ created = {}
  /\ unlinked = {}
  /\ transcript = "none"
  /\ dlFault = "none"
  /\ concatArg = <<>>
  /\ rendered = {}
  /\ synthLog = <<>>
  /\ cleanupRuns = 0
  /\ unlinkFaults = {}
  /\ cleanupRejected = FALSE

\* src/server.js:330-339 with 254-275: request r downloads the man's
\* background video, then the woman's, to a path named with a fresh uuid
RunResolve(r) ==
  /\ runs[r].pc \in { "resolveMan", "resolveWoman" }
  /\ LET n == IF runs[r].pc = "resolveMan" THEN 1 ELSE 2
         targetPath == TargetPathOf(n, nextUuid)
     IN /\ nextUuid' = nextUuid + 1
        /\ disk' = disk \cup {targetPath}
        /\ \E ok \in BOOLEAN :
             runs' = [runs EXCEPT
               ![r].names = @ \cup {targetPath},
               ![r].manVideoPath = IF ok /\ n = 1 THEN targetPath ELSE @,
               ![r].womanVideoPath = IF ok /\ n = 2 THEN targetPath ELSE @,
               ![r].pc = IF ~ok THEN "catch"
                         ELSE IF n = 1 THEN "resolveWoman" ELSE "register"]
  /\ UNCHANGED runsFrame

\* src/server.js:341-346
RunRegister(r) ==
  /\ runs[r].pc = "register"
  /\ runs' = [runs EXCEPT
       ![r].cleanupPaths = @ \o << runs[r].manVideoPath, runs[r].womanVideoPath >>,
       ![r].pc = "loop"]
  /\ UNCHANGED << disk, nextUuid, runsFrame >>

\* src/server.js:348-357 and 375-381: the audio and clip names of the next
\* line are made and registered; after the last line the output name is made
RunLoopHead(r) ==
  /\ runs[r].pc = "loop"
  /\ IF runs[r].index >= runs[r].n
       THEN /\ nextUuid' = nextUuid + 1
            /\ runs' = [runs EXCEPT
                 ![r].finalOutputPath = FinalOutputPathOf(nextUuid),
                 ![r].names = @ \cup { FinalOutputPathOf(nextUuid) },
                 ![r].pc = "concat"]
       ELSE LET audio == AudioPathOf(runs[r].index, nextUuid)
                clip == ClipPathOf(runs[r].index, nextUuid + 1)
            IN /\ nextUuid' = nextUuid + 2
               /\ runs' = [runs EXCEPT
                    ![r].audioPath = audio,
                    ![r].clipPath = clip,
                    ![r].cleanupPaths = @ \o << audio, clip >>,
                    ![r].names = @ \cup { audio, clip },
                    ![r].pc = "render"]
  /\ UNCHANGED << disk, runsFrame >>

\* src/server.js:364-372: the line's audio and clip are written, or a step
\* fails after the audio was written
RunRenderLine(r) ==
  /\ runs[r].pc = "render"
  /\ \/ /\ disk' = disk \cup { runs[r].audioPath, runs[r].clipPath }
        /\ runs' = [runs EXCEPT
             ![r].clipPaths = Append(@, runs[r].clipPath),
             ![r].index = @ + 1,
             ![r].audioPath = NoPath,
             ![r].clipPath = NoPath,
             ![r].pc = "loop"]
     \/ /\ disk' = disk \cup { runs[r].audioPath }
        /\ runs' = [runs EXCEPT ![r].pc = "catch"]
  /\ UNCHANGED << nextUuid, runsFrame >>

\* src/server.js:382 with 235-252: the manifest is written under a fresh
\* name; either the output is written and the manifest unlinked, or ffmpeg
\* fails and the manifest stays
RunConcatenate(r) ==
  /\ runs[r].pc = "concat"
  /\ nextUuid' = nextUuid + 1
  /\ LET listFilePath == ListFilePathOf(nextUuid)
     IN \/ /\ disk' = (disk \cup { runs[r].finalOutputPath }) \ {listFilePath}
           /\ runs' = [runs EXCEPT
                ![r].names = @ \cup {listFilePath},
                ![r].deleted = @ \cup {listFilePath},
                ![r].pc = "respond"]
        \/ /\ disk' = disk \cup {listFilePath}
           /\ runs' = [runs EXCEPT
                ![r].names = @ \cup {listFilePath},
                ![r].pc = "catch"]
  /\ UNCHANGED runsFrame

\* src/server.js:384-391
RunRespond(r) ==
  /\ runs[r].pc = "respond"
  /\ runs' = [runs EXCEPT ![r].timer = "armed", ![r].pc = "done"]
  /\ UNCHANGED << disk, nextUuid, runsFrame >>

\* src/server.js:389-391
RunTimerFires(r) ==
  /\ runs[r].timer = "armed"
  /\ runs' = [runs EXCEPT ![r].timer = "fired", ![r].cleanupPos = 1]
  /\ UNCHANGED << disk, nextUuid, runsFrame >>

\* src/server.js:392-396
RunCatch(r) ==
  /\ runs[r].pc = "catch"
  /\ runs' = [runs EXCEPT ![r].cleanupPos = 1, ![r].pc = "done"]
  /\ UNCHANGED << disk, nextUuid, runsFrame >>

\* src/server.js:57-66: one unlink of request r's cleanupFiles completes
RunCleanupStep(r) ==
  /\ runs[r].cleanupPos >= 1
  /\ runs[r].cleanupPos <= Len(runs[r].cleanupPaths)
  /\ LET filePath == runs[r].cleanupPaths[runs[r].cleanupPos]
         result == UnlinkResult(filePath, disk, unlinkFaults)
     IN /\ disk' = IF result = "ok" THEN disk \ {filePath} ELSE disk
        /\ runs' = [runs EXCEPT
             ![r].deleted = IF result = "ok" THEN @ \cup {filePath} ELSE @,
             ![r].cleanupPos = @ + 1]
  /\ UNCHANGED << nextUuid, runsFrame >>

RunsNext == \/ \E r \in Runs : RunResolve(r)
            \/ \E r \in Runs : RunRegister(r)
            \/ \E r \in Runs : RunLoopHead(r)
            \/ \E r \in Runs : RunRenderLine(r)
            \/ \E r \in Runs : RunConcatenate(r)
            \/ \E r \in Runs : RunRespond(r)
            \/ \E r \in Runs : RunTimerFires(r)
            \/ \E r \in Runs : RunCatch(r)
            \/ \E r \in Runs : RunCleanupStep(r)

RunsSpec == RunsInit /\ [][RunsNext]_vars

\* =================================================================== claims
Sent(code) == \E i \in 1..Len(responses) : responses[i] = code

\* the handler has returned and every cleanup it started or scheduled has run
RunOver ==
  /\ pc = "done"
  /\ timer # "armed"
  /\ cleanupPos = 0 \/ cleanupPos > Len(cleanupPaths)

UploadsOf(files) == { UploadPath(f) : f \in files }

\* the request passes the checks the claims name for a valid request
ValidRequest ==
  /\ apiKey
  /\ manVoice.t = "str" /\ includes(manVoice.s, chirp)
  /\ womanVoice.t = "str" /\ includes(womanVoice.s, chirp)

\* a script entry with a non-empty speaker and a non-empty line
WellFormed(entry) == ~entry.isNull /\ Truthy(entry.speaker) /\ Truthy(entry.line)

\* the (1-based) positions of the well-formed entries, in script order
WellFormedIndices(sc) ==
  SelectSeq([i \in 1..Len(sc) |-> i], LAMBDA i : WellFormed(sc[i]))

ClipIndices(paths) == [k \in 1..Len(paths) |-> paths[k].n]

Count(seq, x) == Cardinality({ i \in 1..Len(seq) : seq[i] = x })

\* C1: when a run is over (the failure cleanup has completed, or the deferred
\* cleanup of a successful run has fired and completed), no file the
\* pipeline created is left on disk, and no created path is listed twice for
\* deletion.
C1_EveryCreatedFileDeleted ==
  RunOver =>
    /\ created \cap disk = {}
    /\ \A f \in created : Count(cleanupPaths, f) <= 1

\* C2: once the success path has scheduled the deferred cleanup, the final
\* output file is in the cleanup list; it is gone once that cleanup has run;
\* and it is not deleted before the timer has fired.
C2_FinalOutputRegisteredAndDeleted ==
  /\ timer # "unset" =>
       \E i \in 1..Len(cleanupPaths) : cleanupPaths[i].kind = "final"
  /\ (timer = "fired" /\ cleanupPos > Len(cleanupPaths)) =>
       \A f \in disk : f.kind # "final"
  /\ timer # "fired" => \A f \in unlinked : f.kind # "final"

\* C3: when a run is over, whatever its outcome (200, 400 or 500), none of
\* the request's uploaded files is left on disk; and an upload path is in
\* the cleanup list at most once.
C3_UploadsDeletedWhateverTheOutcome ==
  /\ RunOver => UploadsOf(reqFiles) \cap disk = {}
  /\ \A f \in UploadsOf(reqFiles) : Count(cleanupPaths, f) <= 1

\* C4: whenever concatenation is about to be invoked or has been invoked, the
\* clip list holds exactly one rendered clip per well-formed script entry, in
\* the order of those entries in the script, and concatenateClips received
\* that list.
C4_ClipsMatchWellFormedEntries ==
  /\ pc \in {"concat", "respond"} =>
       /\ ClipIndices(clipPaths) = WellFormedIndices(script)
       /\ \A k \in 1..Len(clipPaths) :
            /\ clipPaths[k].kind = "clip"
            /\ clipPaths[k] \in disk
            /\ << clipPaths[k].n, "clip" >> \in rendered
  /\ "concat" \in calls =>
       /\ ClipIndices(concatArg) = WellFormedIndices(script)
       /\ pc = "respond" => concatArg = clipPaths

\* a malformed entry in front of a well-formed one is skipped, the run goes on
\* and the clip keeps the entry's own position
C4_Witness ==
  /\ pc = "respond"
  /\ Len(script) = 2
  /\ ~WellFormed(script[1])
  /\ ClipIndices(concatArg) = << 2 >>

\* every well-formed line was synthesized, probed and assembled, and the
\* concatenation of all clips succeeded
RunComplete ==
  /\ WellFormedIndices(script) # <<>>
  /\ \A k \in 1..Len(WellFormedIndices(script)) :
       LET i == WellFormedIndices(script)[k]
       IN { << i, "synth" >>, << i, "probe" >>, << i, "clip" >> } \subseteq rendered
  /\ ClipIndices(concatArg) = WellFormedIndices(script)
  /\ << 0, "concat" >> \in rendered

\* a step of the pipeline has failed: a fault hit a download, or an error
\* was thrown to the catch block
StepFailed == dlFault # "none" \/ error # "none" \/ Sent(500)

\* C5: the run is all-or-nothing.  A 200 is sent only if every well-formed
\* line was synthesized, probed and assembled and all clips were
\* concatenated, and it is then the only response.  A handler that has
\* returned for a valid request whose run is not complete has answered 500.
\* Once any step has failed (generator, source download, synthesis, probe,
\* clip assembly, concatenation) no 200 is sent: whatever is answered is 500.
C5_AllOrNothing ==
  /\ Sent(200) => RunComplete /\ responses = << 200 >>
  /\ (pc = "done" /\ ValidRequest /\ ~RunComplete) => responses = << 500 >>
  /\ StepFailed =>
       /\ responses \in { <<>>, << 500 >> }
       /\ pc = "done" => responses = << 500 >>

\* a run of two well-formed lines that was answered 200
C5_Witness ==
  /\ responses = << 200 >>
  /\ Len(WellFormedIndices(script)) = 2

\* a run that failed in its second line, after the first clip was made
C5_WitnessFailed ==
  /\ responses = << 500 >>
  /\ << 1, "clip" >> \in rendered
  /\ << 2, "clip" >> \notin rendered

\* C6: a request without apiKey, or with a manVoice or womanVoice that is
\* not a string containing 'chirp', never leaves validation: no external
\* call is made, no pipeline file is created, and the answer is 400.
C6_InvalidRequestRejectedFirst ==
  ~ValidRequest =>
    /\ pc \in {"validate", "done"}
    /\ calls = {}
    /\ created = {}
    /\ disk \subseteq UploadsOf(reqFiles)
    /\ pc = "done" => responses = << 400 >>

\* the spec's example: a chirp man's voice and a plain woman's voice
C6_Witness ==
  /\ responses = << 400 >>
  /\ apiKey
  /\ manVoice = Str(<<"c", "h", "i", "r", "p", "-", "m">>)
  /\ womanVoice = Str(<<"p", "l", "a", "i", "n">>)

\* C7: once a fault has hit the download of a background video (request
\* rejected, error while the body streams, write error on the target), the
\* run is failed: the handler is in or past the catch block, and the
\* request is answered with 500.
C7_DownloadFaultFailsRun ==
  dlFault # "none" =>
    /\ pc \in {"catch", "done"}
    /\ pc = "done" => responses = << 500 >>

\* C8: if the script has no well-formed entry, concatenateClips is never
\* invoked, no final output file is created, no 200 is sent, and a handler
\* that has returned for a valid request has answered 500.
C8_EmptyDialogueFails ==
  WellFormedIndices(script) = <<>> =>
    /\ "concat" \notin calls
    /\ pc \notin {"concat", "respond"}
    /\ \A f \in created : f.kind \notin {"final", "manifest"}
    /\ ~Sent(200)
    /\ (pc = "done" /\ ValidRequest) => responses = << 500 >>

\* the loop has run over a script of malformed entries only
C8_Witness ==
  /\ pc = "catch"
  /\ error = "noClips"
  /\ Len(script) = 2

\* C9: for every line being rendered the voice and the background video are
\* both the woman's if the lower-cased label contains 'woman' and both the
\* man's otherwise, and attribution fails for no non-empty label.
C9_AttributionConsistentAndTotal ==
  /\ pc \in {"synth", "probe", "assemble"} =>
       LET label == script[index + 1].speaker
           isWoman == \E i \in 0..(Len(label.s) - 5) :
                        toLowerCase(SubSeq(label.s, i + 1, i + 5)) = woman
       IN IF isWoman
            THEN voice = womanVoice /\ baseVideoPath = womanVideoPath
            ELSE voice = manVoice /\ baseVideoPath = manVideoPath
  /\ error # "speakerTypeError"

\* C10: a failed transcript extraction does not fail the run: the composer
\* returns with the degraded-context segment and the generator is called
\* (unless the read of an uploaded topic file fails); and the generator
\* always receives at least two segments.
C10_TranscriptFailureDegrades ==
  /\ transcript = "failed" =>
       \/ /\ pc = "gemini"
          /\ \E i \in 1..Len(topicParts) : topicParts[i] = "noTranscript"
          /\ \A i \in 1..Len(topicParts) : topicParts[i] # "transcript"
       \/ "gemini" \in calls
       \/ /\ "topicFile" \in reqFiles
          /\ pc \in {"catch", "done"}
          /\ pc = "catch" => error = "readFile"
  /\ pc = "gemini" => Len(topicParts) >= 2

C10_Witness ==
  /\ pc = "gemini"
  /\ transcript = "failed"
  /\ topicParts = << "intro", "noTranscript" >>

\* the cleanup list holds the path
Registered(f) == \E i \in 1..Len(cleanupPaths) : cleanupPaths[i] = f

\* C11: with two requests running side by side, no file name generated by
\* one (downloaded source, audio, clip, concat manifest, final output) is
\* generated by the other, each request lists only names of its own for
\* deletion, and no request's unlinks remove a file of the other.
C11_RunsNeverCollide ==
  \A r, q \in Runs :
    r # q =>
      /\ runs[r].names \cap runs[q].names = {}
      /\ runs[r].deleted \cap runs[q].names = {}
      /\ \A i \in 1..Len(runs[r].cleanupPaths) :
           runs[r].cleanupPaths[i] \notin runs[q].names

\* both requests have made the names of their first line, and one request's
\* cleanup has deleted files while the other's files are on disk
C11_Witness ==
  \E r, q \in Runs :
    /\ r # q
    /\ \E f \in runs[r].deleted : f.kind = "audio"
    /\ \E f \in runs[q].names \cap disk : f.kind = "audio"

\* what holds of a call of cleanupFiles at any moment
CleanupBestEffort ==
  /\ ~cleanupRejected
  /\ cleanupPos > Len(cleanupPaths) =>
       \A i \in 1..Len(cleanupPaths) :
         cleanupPaths[i] \in disk => cleanupPaths[i] \in unlinkFaults
  /\ \A f \in unlinked : Registered(f) /\ f \notin disk /\ f \notin unlinkFaults

\* C19: after every step of cleanupFiles, whatever the list holds (undefined
\* entries, paths never created, paths deleted before): the call has not
\* rejected; once it has settled, every listed path whose unlink does not
\* fail is absent from the disk, whether or not the unlink of another entry
\* failed; only listed paths have been removed; and a second call on the
\* same list removes nothing more.
C19_CleanupBestEffortIdempotent ==
  [][/\ CleanupBestEffort'
     /\ cleanupRuns = 2 => disk' = disk /\ unlinked' = unlinked]_vars

\* the second call has settled on a list with an undefined entry, a path whose
\* unlink fails and a path that the first call deleted
C19_Witness ==
  /\ cleanupRuns = 2
  /\ cleanupPos > Len(cleanupPaths)
  /\ Len(cleanupPaths) = 3
  /\ cleanupPaths[1] \in unlinkFaults \cap disk
  /\ cleanupPaths[2] = NoPath
  /\ cleanupPaths[3] \in unlinked

\* C12: at every point of a run, every file the pipeline has created and that
\* is on disk (downloaded background video, synthesized audio, clip, concat
\* manifest) is in the cleanup list.
C12_CreatedFilesRegistered ==
  \A f \in disk :
    f.kind \in { "source", "audio", "clip", "manifest" } => Registered(f)

\* C13: once the 500 has been sent, none of the registered files is on disk:
\* the deletion has completed before the error is surfaced.
C13_CleanupDoneBeforeError ==
  Sent(500) => \A i \in 1..Len(cleanupPaths) : cleanupPaths[i] \notin disk

\* the phase of the run's state machine the handler is in
Phase ==
  CASE pc = "validate" -> "Idle"
    [] pc = "compose" -> "Composing"
    [] pc = "gemini" -> "GeneratingScript"
    [] pc \in { "resolveMan", "resolveWoman", "register", "hung" } -> "ResolvingSources"
    [] pc \in { "loop", "synth", "probe", "assemble", "checkClips" } -> "Rendering"
    [] pc = "concat" -> "Concatenating"
    [] pc = "respond" -> "Succeeded"
    [] pc = "catch" -> "Failed"
    [] pc = "crashed" -> "Crashed"
    [] pc = "done" -> IF Sent(200) THEN "Succeeded"
                      ELSE IF Sent(500) THEN "Failed" ELSE "Rejected"

\* the order of the phases as the handler runs them
CodeOrder == << "Idle", "Composing", "GeneratingScript", "ResolvingSources",
                "Rendering", "Concatenating", "Succeeded" >>

\* the order of the phases with the sources resolved first
SourcesFirstOrder == << "Idle", "ResolvingSources", "Composing", "GeneratingScript",
                        "Rendering", "Concatenating", "Succeeded" >>

Follows(order, p, q) == \E k \in 1..(Len(order) - 1) : order[k] = p /\ order[k + 1] = q

\* a step keeps the phase, moves to the next phase of the order, fails, or
\* leaves the state machine (a rejected request, a crashed process)
PhaseStep(order, failing) ==
  \/ Phase' = Phase
  \/ Follows(order, Phase, Phase')
  \/ Phase \in failing /\ Phase' = "Failed"
  \/ Phase = "Idle" /\ Phase' = "Rejected"
  \/ Phase = "ResolvingSources" /\ Phase' = "Crashed"

C15_RenderingAfterScriptAndSources ==
  /\ pc \in { "synth", "probe", "assemble" } =>
       /\ "gemini" \in calls
       /\ index < Len(script)
       /\ manVideoPath # NoPath /\ manVideoPath \in disk
       /\ womanVideoPath # NoPath /\ womanVideoPath \in disk
  /\ (synthLog # <<>> \/ { "tts", "ffprobe", "ffmpeg" } \cap calls # {}) =>
       /\ "gemini" \in calls
       /\ dlFault = "none"
  /\ (error \in GeminiFailures \cup { "missingUpload", "sourceFetch" }
      \/ pc \in { "hung", "crashed" }) =>
       /\ synthLog = <<>>
       /\ { "tts", "ffprobe", "ffmpeg" } \cap calls = {}

\* a line is being rendered over two downloaded background videos
C15_Witness ==
  /\ pc = "probe"
  /\ synthLog = << 1 >>
  /\ manVideoPath.kind = "source"
  /\ womanVideoPath.kind = "source"

\* C16: rendering is sequential.  The synthesis calls are made in script order
\* and at most once per line, for the well-formed entries without a gap; the
\* call for a line is made only after synthesis, probe and clip assembly of
\* every line before it have completed; the line in flight is the last one
\* synthesized; and after a failure no further synthesis call is made.
C16_RenderingSequential ==
  /\ \A j, k \in 1..Len(synthLog) : j < k => synthLog[j] < synthLog[k]
  /\ Len(synthLog) <= Len(WellFormedIndices(script))
  /\ synthLog = SubSeq(WellFormedIndices(script), 1, Len(synthLog))
  /\ \A k \in 1..(Len(synthLog) - 1) :
       { << synthLog[k], "synth" >>, << synthLog[k], "probe" >>,
         << synthLog[k], "clip" >> } \subseteq rendered
  /\ pc \in { "probe", "assemble" } =>
       /\ synthLog # <<>>
       /\ synthLog[Len(synthLog)] = index + 1
       /\ << index + 1, "synth" >> \in rendered
  /\ pc = "synth" => \A k \in 1..Len(synthLog) : synthLog[k] < index + 1
  /\ \A i \in 1..Len(script) :
       << i, "clip" >> \in rendered =>
         { << i, "synth" >>, << i, "probe" >> } \subseteq rendered

\* the second line is synthesized after the first line's clip was assembled
C16_Witness ==
  /\ pc = "probe"
  /\ synthLog = << 1, 2 >>
  /\ << 1, "clip" >> \in rendered

\* C17: clip assembly is entered only with a probed duration that is a
\* positive finite number.
C17_AssemblyOnlyWithPositiveDuration ==
  pc = "assemble" => duration = "positive"

\* C18: cleanupFiles is invoked at most once per request.  The deferred
\* cleanup is scheduled only once the 200 has been sent, is scheduled for
\* every successful run, stays scheduled until it fires and fires at most
\* once; a run answered 500 has no deferred cleanup and a run answered 200 no
\* immediate one; and the list handed to cleanupFiles names no path twice.
C18_CleanupOnceAfterResponse ==
  /\ cleanupRuns <= 1
  /\ timer # "unset" => responses = << 200 >>
  /\ Sent(200) => timer \in { "armed", "fired" }
  /\ timer = "armed" => cleanupRuns = 0 /\ cleanupPos = 0 /\ ENABLED TimerFires
  /\ timer = "fired" => cleanupRuns = 1
  /\ Sent(500) => timer = "unset" /\ cleanupRuns = 1
  /\ cleanupRuns = 0 => cleanupPos = 0 /\ unlinked \subseteq { f \in created : f.kind = "manifest" }
  /\ cleanupPos >= 1 =>
       \A j, k \in 1..Len(cleanupPaths) : j < k => cleanupPaths[j] # cleanupPaths[k]

\* the deferred cleanup of a successful run with an uploaded background video
\* has fired and deleted a file
C18_Witness ==
  /\ timer = "fired"
  /\ responses = << 200 >>
  /\ "manVideoFile" \in reqFiles
  /\ \E f \in unlinked : f.kind = "clip"

\* C20: the handler sends at most one response, it is 200, 400 or 500, and a
\* handler that has returned has sent exactly one.
C20_ExactlyOneResponse ==
  /\ Len(responses) <= 1
  /\ \A i \in 1..Len(responses) : responses[i] \in { 200, 400, 500 }
  /\ pc = "done" => Len(responses) = 1
  /\ pc \in { "validate", "compose", "gemini", "resolveMan", "resolveWoman", "register",
              "loop", "synth", "probe", "assemble", "checkClips", "concat", "respond",
              "catch" } => responses = <<>>

\* a rejected request, answered 400 and nothing else
C20_Witness ==
  /\ pc = "done"
  /\ responses = << 400 >>
  /\ calls = {}

====
